---- MODULE Spec2Model ----
(***************************************************************************)
(* Model of the ESG Sentinel backend (src/app/backend/main.py):            *)
(* safe_extract_pages, find_evidence and the analyze_loan handler.         *)
(*                                                                         *)
(* A text is a sequence of one-character strings.  Offsets are 0-based as  *)
(* in Python; SubSeq/indexing add 1.  Numbers the code rounds to one       *)
(* decimal (coverage_pct, parse_success_pct) are kept in tenths, so 33.3   *)
(* is 333.  Python's round() is round-half-to-even; for the page counts    *)
(* reached here the exact quotient and the float quotient round alike.     *)
(***************************************************************************)
EXTENDS Integers, Sequences, FiniteSets, TLC

VARIABLES pdf, pages, page_errors, pc, result

vars == <<pdf, pages, page_errors, pc, result>>

(***************************************************************************)
(* Bounds of the model.                                                    *)
(***************************************************************************)
MaxPages == 2
MaxScorePages == 27

(***************************************************************************)
(* Program constants.                                                      *)
(***************************************************************************)
Window == 80
EvidenceCap == 25
MIN_CHARS == 40
CoverageWeight == 70
FamilyWeight == 10
TargetWeight == 5
ConfidenceMax == 100

(***************************************************************************)
(* Python str primitives on character sequences.                           *)
(***************************************************************************)
Min(a, b) == IF a <= b THEN a ELSE b
Max(a, b) == IF a >= b THEN a ELSE b

\* Code-point order of the characters that occur in the modelled texts.
CodePoints ==
  <<"\n", " ", "1", "2", "C", "D", "E", "G", "P", "W",
    "a", "b", "c", "d", "e", "g", "h", "i", "l", "m", "n", "o", "p",
    "r", "s", "t", "u", "v", "w", "x", "y">>

Ord(c) == CHOOSE i \in 1..Len(CodePoints) : CodePoints[i] = c

\* str.lower() on one character
LowerChar(c) ==
  CASE c = "C" -> "c"
    [] c = "D" -> "d"
    [] c = "E" -> "e"
    [] c = "G" -> "g"
    [] c = "P" -> "p"
    [] c = "W" -> "w"
    [] OTHER -> c

\* str.lower()
Lower(s) == [i \in 1..Len(s) |-> LowerChar(s[i])]

IsSpace(c) == c \in {" ", "\n"}

\* str.strip()
Strip(s) ==
  IF \A i \in 1..Len(s) : IsSpace(s[i]) THEN <<>>
  ELSE LET lo == CHOOSE i \in 1..Len(s) :
                    ~IsSpace(s[i]) /\ \A j \in 1..(i - 1) : IsSpace(s[j])
           hi == CHOOSE i \in 1..Len(s) :
                    ~IsSpace(s[i]) /\ \A j \in (i + 1)..Len(s) : IsSpace(s[j])
       IN SubSeq(s, lo, hi)

\* str.replace("\n", " ")
ReplaceNewline(s) == [i \in 1..Len(s) |-> IF s[i] = "\n" THEN " " ELSE s[i]]

\* kw occurs in s at 0-based offset i
MatchAt(s, kw, i) ==
  /\ i + Len(kw) <= Len(s)
  /\ \A j \in 1..Len(kw) : s[i + j] = kw[j]

\* kw in s
Contains(s, kw) == \E i \in 0..(Len(s) - Len(kw)) : MatchAt(s, kw, i)

\* s.find(kw, start): least offset >= start where kw occurs, else -1
Find(s, kw, start) ==
  LET last == Len(s) - Len(kw)
  IN IF \E i \in start..last : MatchAt(s, kw, i)
     THEN CHOOSE i \in start..last :
            MatchAt(s, kw, i) /\ \A j \in start..(i - 1) : ~MatchAt(s, kw, j)
     ELSE -1

\* "\n".join(pages)
RECURSIVE Join(_)
Join(ps) ==
  IF ps = <<>> THEN <<>>
  ELSE IF Len(ps) = 1 THEN ps[1]
  ELSE ps[1] \o <<"\n">> \o Join(Tail(ps))

\* a < b in Python's string order
RECURSIVE StrLess(_, _)
StrLess(a, b) ==
  IF b = <<>> THEN FALSE
  ELSE IF a = <<>> THEN TRUE
  ELSE IF a[1] = b[1] THEN StrLess(Tail(a), Tail(b))
  ELSE Ord(a[1]) < Ord(b[1])

\* sorted(set(xs)) without the sort: first occurrences in extension order
Unsorted(xs) ==
  LET first == {i \in 1..Len(xs) : \A j \in 1..(i - 1) : xs[j] # xs[i]}
  IN [n \in 1..Cardinality(first) |->
        xs[CHOOSE i \in first : Cardinality({j \in first : j <= i}) = n]]

\* sorted(set(xs))
RECURSIVE SortSet(_)
SortSet(S) ==
  IF S = {} THEN <<>>
  ELSE LET m == CHOOSE x \in S : \A y \in S \ {x} : StrLess(x, y)
       IN <<m>> \o SortSet(S \ {m})

SortedSet(xs) == SortSet({xs[i] : i \in 1..Len(xs)})


\* round(num/den) for num >= 0, den > 0: round half to even
RoundHalfEven(num, den) ==
  LET q == num \div den
      r == num % den
  IN IF 2 * r > den \/ (2 * r = den /\ q % 2 = 1) THEN q + 1 ELSE q

(***************************************************************************)
(* Keyword families and target labels of analyze_loan.                     *)
(***************************************************************************)
kw_carbon ==
  << <<"c","a","r","b","o","n">>,
     <<"e","m","i","s","s","i","o","n">>,
     <<"g","h","g">>,
     <<"s","c","o","p","e"," ","1">>,
     <<"s","c","o","p","e"," ","2">>,
     <<"d","e","c","a","r","b","o","n">> >>

kw_renew ==
  << <<"r","e","n","e","w","a","b","l","e">>,
     <<"c","l","e","a","n"," ","e","n","e","r","g","y">>,
     <<"g","r","e","e","n"," ","p","o","w","e","r">> >>

kw_div ==
  << <<"d","i","v","e","r","s","i","t","y">>,
     <<"g","e","n","d","e","r">>,
     <<"i","n","c","l","u","s","i","o","n">>,
     <<"b","o","a","r","d"," ","c","o","m","p","o","s","i","t","i","o","n">> >>

kw_water ==
  << <<"w","a","t","e","r">>,
     <<"s","c","a","r","c","i","t","y">> >>

Families == <<kw_carbon, kw_renew, kw_div, kw_water>>

TargetLabels ==
  << "Scope 1 & 2 Greenhouse Gas Emissions Reduction",
     "Renewable Energy Sourcing (%)",
     "Gender Diversity in Senior Management",
     "Water Scarcity Management" >>

FallbackTargets ==
  << "Scope 1 & 2 Greenhouse Gas Emissions Reduction",
     "Renewable Energy Sourcing (%)",
     "Gender Diversity in Senior Management" >>

(***************************************************************************)
(* find_evidence                                                           *)
(***************************************************************************)
\* text[left:right].replace("\n", " ").strip() around the hit at idx
Snippet(text, idx, kw) ==
  LET left == Max(0, idx - Window)
      right == Min(Len(text), idx + Len(kw) + Window)
  IN Strip(ReplaceNewline(SubSeq(text, left + 1, right)))

\* the while loop: every next occurrence of kw from start, non-overlapping
RECURSIVE ScanKeyword(_, _, _, _, _)
ScanKeyword(text, low, kw, pi, start) ==
  LET idx == Find(low, kw, start)
  IN IF idx = -1 THEN <<>>
     ELSE <<[keyword |-> kw, page |-> pi + 1, snippet |-> Snippet(text, idx, kw)]>>
          \o ScanKeyword(text, low, kw, pi, idx + Len(kw))

\* for kw in keywords, on one page
RECURSIVE ScanPage(_, _, _, _, _)
ScanPage(text, low, keywords, pi, k) ==
  IF k > Len(keywords) THEN <<>>
  ELSE ScanKeyword(text, low, keywords[k], pi, 0)
       \o ScanPage(text, low, keywords, pi, k + 1)

\* the page loop searching the text as written, not its lower-case form
RECURSIVE ScanPagesCaseSensitive(_, _, _)
ScanPagesCaseSensitive(ps, keywords, pi) ==
  IF pi >= Len(ps) THEN <<>>
  ELSE LET text == ps[pi + 1]
       IN (IF Strip(text) = <<>> THEN <<>>
           ELSE ScanPage(text, text, keywords, pi, 1))
          \o ScanPagesCaseSensitive(ps, keywords, pi + 1)

\* for pi, text in enumerate(pages), from page offset pi on
RECURSIVE ScanPages(_, _, _)
ScanPages(ps, keywords, pi) ==
  IF pi >= Len(ps) THEN <<>>
  ELSE LET text == ps[pi + 1]
           low == Lower(text)
       IN (IF Strip(low) = <<>> THEN <<>>
           ELSE ScanPage(text, low, keywords, pi, 1))
          \o ScanPages(ps, keywords, pi + 1)

\* evidence[:25]
Truncate(evidence) == SubSeq(evidence, 1, Min(Len(evidence), EvidenceCap))

\* find_evidence with the cap applied to each page's entries
FindEvidencePerPageCap(ps, keywords) ==
  LET all == ScanPages(ps, keywords, 0)
      keep == {i \in 1..Len(all) :
                 Cardinality({j \in 1..i : all[j].page = all[i].page}) <= EvidenceCap}
  IN [n \in 1..Cardinality(keep) |->
        all[CHOOSE i \in keep : Cardinality({j \in keep : j <= i}) = n]]

find_evidence(ps, keywords) ==
  IF keywords = <<>> THEN <<>>
  ELSE Truncate(ScanPages(ps, keywords, 0))

(***************************************************************************)
(* analyze_loan: family matching                                           *)
(***************************************************************************)
\* any(k in text_lower for k in family)
FamilyHit(text_lower, family) ==
  \E i \in 1..Len(family) : Contains(text_lower, family[i])

\* found_targets after the four ifs, from family f on
RECURSIVE DetectTargets(_, _)
DetectTargets(text_lower, f) ==
  IF f > Len(Families) THEN <<>>
  ELSE (IF FamilyHit(text_lower, Families[f]) THEN <<TargetLabels[f]>> ELSE <<>>)
       \o DetectTargets(text_lower, f + 1)

\* extending with the member keywords that occur, not the whole family
HitKeywordsOnly(text_lower, family) ==
  SelectSeq(family, LAMBDA k : Contains(text_lower, k))

\* what a matched family extends matched_keywords with: its whole list,
\* whatever the text
FamilyKeywords(text_lower, family) == family

\* matched_keywords after the four ifs, from family f on
RECURSIVE ExtendKeywords(_, _)
ExtendKeywords(text_lower, f) ==
  IF f > Len(Families) THEN <<>>
  ELSE (IF FamilyHit(text_lower, Families[f])
        THEN FamilyKeywords(text_lower, Families[f]) ELSE <<>>)
       \o ExtendKeywords(text_lower, f + 1)

\* the page texts joined without a separator
RECURSIVE ConcatPages(_)
ConcatPages(ps) == IF ps = <<>> THEN <<>> ELSE ps[1] \o ConcatPages(Tail(ps))

\* full_text
FullText(ps) == Join(ps)

\* a fallback that substitutes every catalog label
WithFallbackAll(found) == IF found = <<>> THEN TargetLabels ELSE found

\* found_targets after the fallback substitution
WithFallback(found) == IF found = <<>> THEN FallbackTargets ELSE found

(***************************************************************************)
(* analyze_loan: metrics                                                   *)
(***************************************************************************)
\* parse success of an empty document reported as 100.0
ParseSuccessPctVacuous(total_pages, errors) ==
  IF total_pages # 0
  THEN RoundHalfEven(1000 * (total_pages - errors), total_pages)
  ELSE 1000

\* round(((total_pages - page_errors) / total_pages) * 100, 1), in tenths
ParseSuccessPct(total_pages, errors) ==
  IF total_pages # 0
  THEN RoundHalfEven(1000 * (total_pages - errors), total_pages)
  ELSE 0

\* sum(1 for t in pages if len(t.strip()) >= MIN_CHARS)
PagesWithText(ps) ==
  Cardinality({i \in 1..Len(ps) : Len(Strip(ps[i])) >= MIN_CHARS})

\* round((pages_with_text / total_pages) * 100, 1), in tenths
CoveragePct(with_text, total_pages) ==
  IF total_pages # 0 THEN RoundHalfEven(1000 * with_text, total_pages) ELSE 0

\* families counted from the target list after the fallback substitution
FamiliesFromTargets(matched_keywords, found_targets) == Len(found_targets)

\* families_matched: one per family with a member in matched_keywords
\* (found_targets, in scope at that point, is not read)
FamiliesMatched(matched_keywords, found_targets) ==
  Cardinality({f \in 1..Len(Families) :
     \E i \in 1..Len(Families[f]) : \E j \in 1..Len(matched_keywords) :
        Families[f][i] = matched_keywords[j]})

\* the score without min(100, ...)
ConfidenceUncapped(with_text, total_pages, cov_pct, families, targets) ==
  LET rest == families * FamilyWeight + targets * TargetWeight
  IN IF total_pages # 0
     THEN RoundHalfEven(CoverageWeight * with_text + rest * total_pages, total_pages)
     ELSE rest

\* the score with coverage taken as coverage_pct / 100
ConfidenceFromPct(with_text, total_pages, cov_pct, families, targets) ==
  LET rest == families * FamilyWeight + targets * TargetWeight
  IN Min(ConfidenceMax,
         RoundHalfEven(CoverageWeight * cov_pct + rest * 1000, 1000))

\* min(100, round(coverage * 70 + families_matched * 10 + len(found_targets) * 5))
\* with coverage = pages_with_text / total_pages, or 0.0 for no pages
\* (the rounded coverage_pct, in scope at that point, is not read)
Confidence(with_text, total_pages, cov_pct, families, targets) ==
  LET rest == families * FamilyWeight + targets * TargetWeight
  IN IF total_pages # 0
     THEN Min(ConfidenceMax,
              RoundHalfEven(CoverageWeight * with_text + rest * total_pages, total_pages))
     ELSE Min(ConfidenceMax, rest)

\* the response of analyze_loan for the extracted pages
Analyze(ps, errors) ==
  LET full_text == FullText(ps)
      text_lower == Lower(full_text)
      detected == DetectTargets(text_lower, 1)
      matched_keywords == SortedSet(ExtendKeywords(text_lower, 1))
      evidence == find_evidence(ps, matched_keywords)
      fallback_mode == (detected = <<>>)
      found_targets == WithFallback(detected)
      total_pages == Len(ps)
      with_text == PagesWithText(ps)
      cov_pct == CoveragePct(with_text, total_pages)
      families == FamiliesMatched(matched_keywords, found_targets)
  IN [ matched_keywords |-> matched_keywords,
       evidence |-> evidence,
       sustainability_targets |-> found_targets,
       max_steps |-> Len(found_targets),
       text_length |-> Len(full_text),
       confidence |-> Confidence(with_text, total_pages, cov_pct, families,
                                 Len(found_targets)),
       coverage_pct |-> cov_pct,
       parse_success_pct |-> ParseSuccessPct(total_pages, errors),
       pages_total |-> total_pages,
       pages_failed |-> errors,
       pages_with_text |-> with_text,
       targets_detected |-> Len(found_targets),
       keyword_hits |-> Len(matched_keywords),
       fallback_mode |-> fallback_mode,
       text_extracted |-> (cov_pct > 0) ]

(***************************************************************************)
(* Inputs: what the PDF reader yields per page.                            *)
(***************************************************************************)
RECURSIVE Repeat(_, _)
Repeat(s, n) == IF n = 0 THEN <<>> ELSE s \o Repeat(s, n - 1)

P_empty == <<>>
P_blank == <<" ", "\n", " ">>
P_car == <<"c","a","r">>
P_bon == <<"b","o","n">>
P_mixed == <<"D","e","C","a","r","b","o","n"," ","E","m","i","s","s","i","o","n">>
P_ghg == <<"g","h","g","h","g"," ","G","r","e","e","n"," ","P","o","w","e","r">>
P_all ==
  <<"G","e","n","d","e","r"," ","d","i","v","e","r","s","i","t","y","\n",
    "C","l","e","a","n"," ","e","n","e","r","g","y"," ",
    "W","a","t","e","r"," ","s","c","a","r","c","i","t","y"," ",
    "s","c","o","p","e"," ","1">>
P_water == Repeat(<<"W","a","t","e","r"," ">>, EvidenceCap + 5)
P_short == <<" ">> \o Repeat(<<"x">>, MIN_CHARS - 1) \o <<"\n">>
P_long == Repeat(<<"x">>, MIN_CHARS)
P_longkw == <<"c","a","r","b","o","n">> \o Repeat(<<"x">>, MIN_CHARS - 6)

PageTexts ==
  {P_empty, P_blank, P_car, P_bon, P_mixed, P_ghg, P_all, P_water, P_short, P_long}

PageOutcomes ==
  {[raises |-> FALSE, text |-> t] : t \in PageTexts}
    \cup {[raises |-> TRUE, text |-> <<>>]}

PdfInputs == UNION {[1..n -> PageOutcomes] : n \in 0..MaxPages}

\* documents for the scoring arithmetic: with_text readable pages, then
\* pages that by turns fail to decode and decode to blank text
ScorePdf(total, with_text, long) ==
  [i \in 1..total |->
     IF i <= with_text THEN [raises |-> FALSE, text |-> long]
     ELSE IF (i - with_text) % 2 = 1 THEN [raises |-> TRUE, text |-> <<>>]
     ELSE [raises |-> FALSE, text |-> P_blank]]

ScorePdfs ==
  UNION {{ScorePdf(t, p, long) : p \in 0..t, long \in {P_long, P_longkw}} :
           t \in 0..MaxScorePages}

(***************************************************************************)
(* State machine of one request.                                           *)
(***************************************************************************)
NoResult ==
  [ matched_keywords |-> <<>>, evidence |-> <<>>, sustainability_targets |-> <<>>,
    max_steps |-> 0, text_length |-> 0, confidence |-> 0, coverage_pct |-> 0,
    parse_success_pct |-> 0, pages_total |-> 0, pages_failed |-> 0,
    pages_with_text |-> 0, targets_detected |-> 0, keyword_hits |-> 0,
    fallback_mode |-> FALSE, text_extracted |-> FALSE ]

Init ==
  /\ pdf \in PdfInputs
  /\ pages = <<>>
  /\ page_errors = 0
  /\ pc = "extract"
  /\ result = NoResult

InitScore ==
  /\ pdf \in ScorePdfs
  /\ pages = <<>>
  /\ page_errors = 0
  /\ pc = "extract"
  /\ result = NoResult

\* safe_extract_pages, one page: extract_text() returned
ExtractOk ==
  /\ pc = "extract"
  /\ Len(pages) < Len(pdf)
  /\ ~pdf[Len(pages) + 1].raises
  /\ pages' = Append(pages, pdf[Len(pages) + 1].text)
  /\ UNCHANGED <<pdf, page_errors, pc, result>>

\* safe_extract_pages, one page: extract_text() raised
ExtractFail ==
  /\ pc = "extract"
  /\ Len(pages) < Len(pdf)
  /\ pdf[Len(pages) + 1].raises
  /\ page_errors' = page_errors + 1
  /\ pages' = Append(pages, <<>>)
  /\ UNCHANGED <<pdf, pc, result>>

\* analyze_loan after extraction
AnalyzeLoan ==
  /\ pc = "extract"
  /\ Len(pages) = Len(pdf)
  /\ result' = Analyze(pages, page_errors)
  /\ pc' = "done"
  /\ UNCHANGED <<pdf, pages, page_errors>>

Next == ExtractOk \/ ExtractFail \/ AnalyzeLoan

Spec == Init /\ [][Next]_vars

SpecScore == InitScore /\ [][Next]_vars

Done == pc = "done"

(***************************************************************************)
(* Vocabulary of the properties, stated on the document and the response.  *)
(***************************************************************************)
Range(seq) == {seq[i] : i \in 1..Len(seq)}

\* the catalog in declaration order, and a keyword's place in it
Catalog == kw_carbon \o kw_renew \o kw_div \o kw_water
CatalogIndex(k) == CHOOSE i \in 1..Len(Catalog) : Catalog[i] = k

\* a member keyword of family f occurs in the given text
OccursIn(text, f) == \E k \in Range(Families[f]) : Contains(Lower(text), k)

\* families with a member keyword inside the case-folded text of one page
MatchedOnSomePage == {f \in 1..Len(Families) : \E p \in 1..Len(pages) : OccursIn(pages[p], f)}

\* families whose keywords the response lists
FamilyReported(f) == \E k \in Range(Families[f]) : k \in Range(result.matched_keywords)
ReportedFamilies == {f \in 1..Len(Families) : FamilyReported(f)}

\* the labels of a set of families in declaration order
LabelsOf(F) ==
  [n \in 1..Cardinality(F) |->
     TargetLabels[CHOOSE f \in F : Cardinality({g \in F : g <= f}) = n]]

\* offsets of the left-to-right, non-overlapping occurrences of kw in low
RECURSIVE Occurrences(_, _, _)
Occurrences(low, kw, start) ==
  LET idx == Find(low, kw, start)
  IN IF idx = -1 THEN {} ELSE {idx} \cup Occurrences(low, kw, idx + Len(kw))

\* every occurrence <<page, keyword, offset>> of a listed keyword on a page
\* whose text is not blank
Hits ==
  UNION {UNION {{<<p, k, i>> : i \in Occurrences(Lower(pages[p]), k, 0)} :
                  k \in Range(result.matched_keywords)} :
           p \in {q \in 1..Len(pages) : Strip(pages[q]) # <<>>}}

EntryOf(h) ==
  [keyword |-> h[2], page |-> h[1], snippet |-> Snippet(pages[h[1]], h[3], h[2])]

\* g comes before h: page, then keyword by KwLess, then offset
HitBefore(g, h, KwLess(_, _)) ==
  \/ g[1] < h[1]
  \/ g[1] = h[1] /\ KwLess(g[2], h[2])
  \/ g[1] = h[1] /\ g[2] = h[2] /\ g[3] < h[3]

\* the evidence is the first EvidenceCap hits in the order HitBefore gives
EvidenceInOrder(KwLess(_, _)) ==
  LET S == Hits
  IN /\ Len(result.evidence) = Min(EvidenceCap, Cardinality(S))
     /\ \A h \in S :
          LET r == Cardinality({g \in S : HitBefore(g, h, KwLess)}) + 1
          IN r <= Len(result.evidence) => result.evidence[r] = EntryOf(h)

CatalogLess(a, b) == CatalogIndex(a) < CatalogIndex(b)

\* the complete ordered list of occurrences find_evidence generates
AllOccurrences == ScanPages(pages, result.matched_keywords, 0)

\* pages of the PDF whose extraction raised
RaisingPages == {i \in 1..Len(pdf) : pdf[i].raises}

\* sum of the page text lengths
RECURSIVE SumLen(_)
SumLen(ps) == IF ps = <<>> THEN 0 ELSE Len(ps[1]) + SumLen(Tail(ps))

\* min(100, round(coverage*70 + families*10 + targets*5)), coverage = num/den
Score(num, den, families, targets) ==
  Min(ConfidenceMax,
      RoundHalfEven(CoverageWeight * num
                      + (families * FamilyWeight + targets * TargetWeight) * den,
                    den))

(***************************************************************************)
(* C1                                                                      *)
(***************************************************************************)
\* C1: find_evidence returns at most 25 entries, and they are exactly the
\* first 25 (or all, if fewer) of the complete ordered list of occurrences
\* over the whole document: the cap is global.
C1_GlobalCap ==
  Done =>
    LET all == AllOccurrences
    IN /\ Len(result.evidence) <= EvidenceCap
       /\ Len(result.evidence) = Min(EvidenceCap, Len(all))
       /\ \A i \in 1..Len(result.evidence) : result.evidence[i] = all[i]

\* more than 25 occurrences, spread over two pages and two keywords
C1_Witness ==
  /\ Done
  /\ LET all == AllOccurrences
     IN /\ Len(all) > EvidenceCap
        /\ \E i, j \in 1..Len(all) :
             all[i].page # all[j].page /\ all[i].keyword # all[j].keyword

(***************************************************************************)
(* C2                                                                      *)
(***************************************************************************)
\* C2 as stated: the evidence is ordered by page ascending, then by keyword
\* in catalog declaration order, then by occurrence position ascending.
C2_CatalogOrder == Done => EvidenceInOrder(CatalogLess)

\* C2 as amended: the evidence is ordered by page ascending, then by keyword
\* in the lexicographic order of matchedKeywords, then by occurrence position
\* ascending.
C2_SortedOrder == Done => EvidenceInOrder(StrLess)

\* two keywords on one page that the catalog and the sort order differently
C2_Witness ==
  /\ Done
  /\ \E i, j \in 1..Len(result.evidence) :
       /\ i < j
       /\ result.evidence[i].page = result.evidence[j].page
       /\ CatalogLess(result.evidence[j].keyword, result.evidence[i].keyword)

(***************************************************************************)
(* C3                                                                      *)
(***************************************************************************)
\* C3: matchedKeywords is duplicate-free, lexicographically sorted and equals
\* the union of all member keywords of the matched families; it is a subset
\* of the catalog and empty when no family matched.
C3_MatchedKeywords ==
  Done =>
    LET mk == result.matched_keywords
        matched == {f \in 1..Len(Families) : OccursIn(Join(pages), f)}
    IN /\ \A i, j \in 1..Len(mk) : i < j => StrLess(mk[i], mk[j])
       /\ Range(mk) = UNION {Range(Families[f]) : f \in matched}
       /\ Range(mk) \subseteq Range(Catalog)
       /\ matched = {} => mk = <<>>
       /\ result.keyword_hits = Cardinality(Range(mk))

\* two families matched, and a listed keyword that occurs nowhere in the text
C3_Witness ==
  /\ Done
  /\ Cardinality(ReportedFamilies) = 2
  /\ \E k \in Range(result.matched_keywords) : ~Contains(Lower(Join(pages)), k)

(***************************************************************************)
(* C4                                                                      *)
(***************************************************************************)
\* C4: fallbackMode is true exactly when no family matched; then the targets
\* are the first three catalog labels, otherwise the labels of the matched
\* families in declaration order; maxSteps and targetsDetected equal the
\* length of the target list.
C4_Fallback ==
  Done =>
    LET matched == {f \in 1..Len(Families) : OccursIn(Join(pages), f)}
    IN /\ result.fallback_mode = (matched = {})
       /\ result.fallback_mode =>
            result.sustainability_targets = SubSeq(TargetLabels, 1, 3)
       /\ ~result.fallback_mode =>
            result.sustainability_targets = LabelsOf(matched)
       /\ result.max_steps = Len(result.sustainability_targets)
       /\ result.targets_detected = Len(result.sustainability_targets)

\* a document with readable text and no keyword of any family
C4_Witness ==
  /\ Done
  /\ result.fallback_mode
  /\ result.pages_with_text > 0
  /\ result.targets_detected = 3

(***************************************************************************)
(* C5                                                                      *)
(***************************************************************************)
\* C5: the analysis of a zero-page document completes and reports all-zero
\* metrics, no keywords, no evidence and fallback mode.
C5_ZeroPages ==
  /\ (pc = "extract" /\ pdf = <<>>) => ENABLED AnalyzeLoan
  /\ (Done /\ pdf = <<>>) =>
       /\ result.pages_total = 0
       /\ result.pages_failed = 0
       /\ result.pages_with_text = 0
       /\ result.coverage_pct = 0
       /\ result.parse_success_pct = 0
       /\ result.text_extracted = FALSE
       /\ result.matched_keywords = <<>>
       /\ result.evidence = <<>>
       /\ result.fallback_mode = TRUE

\* the zero-page document has been analysed
C5_Witness == Done /\ pdf = <<>> /\ result.sustainability_targets = FallbackTargets

(***************************************************************************)
(* C6                                                                      *)
(***************************************************************************)
\* C6: page counts never exceed the total, both percentages are in [0, 100],
\* the confidence is an integer in [0, 100]; pagesFailed counts each failing
\* page once and a failed page contributes an empty text.
C6_Ranges ==
  /\ page_errors = Cardinality({i \in RaisingPages : i <= Len(pages)})
  /\ \A i \in RaisingPages : i <= Len(pages) => pages[i] = <<>>
  /\ Done =>
       /\ result.pages_total = Len(pdf)
       /\ result.pages_with_text <= result.pages_total
       /\ result.pages_failed <= result.pages_total
       /\ result.pages_failed = Cardinality(RaisingPages)
       /\ result.coverage_pct \in 0..1000
       /\ result.parse_success_pct \in 0..1000
       /\ result.confidence \in 0..ConfidenceMax

\* a failing page next to a readable page on which all four families match
C6_Witness ==
  /\ Done
  /\ RaisingPages # {}
  /\ result.pages_failed < result.pages_total
  /\ result.pages_with_text > 0
  /\ Cardinality(ReportedFamilies) = 4

(***************************************************************************)
(* C7                                                                      *)
(***************************************************************************)
\* C7: the family term is 10 per truly matched family and the target term 5
\* per reported target: in fallback mode they are 0 and 15 (a document with
\* zero coverage scores exactly 15), otherwise the families counted equal the
\* targets detected and the terms add 15 per matched family.
C7_Terms ==
  Done =>
    LET n == Cardinality(Range(result.sustainability_targets))
        den == Max(1, result.pages_total)
    IN /\ result.fallback_mode =>
            /\ ReportedFamilies = {}
            /\ result.confidence = Score(result.pages_with_text, den, 0, 3)
            /\ result.pages_with_text = 0 => result.confidence = 15
       /\ ~result.fallback_mode =>
            /\ Cardinality(ReportedFamilies) = n
            /\ n = result.targets_detected
            /\ result.confidence = Score(result.pages_with_text, den, n, n)

\* a keyword-free document with pages but no coverage scores 15
C7_Witness ==
  /\ Done
  /\ result.fallback_mode
  /\ result.pages_total > 0
  /\ result.text_length > 0
  /\ result.confidence = 15

(***************************************************************************)
(* C8                                                                      *)
(***************************************************************************)
\* C8 as stated: with pagesTotal > 0 the confidence is recomputable from the
\* reported coveragePct: min(100, round(coveragePct/100*70 + families*10 +
\* targets*5)).
C8_FromCoveragePct ==
  (Done /\ result.pages_total > 0) =>
    result.confidence =
      Score(result.coverage_pct, 1000, Cardinality(ReportedFamilies),
            result.targets_detected)

\* C8 as amended: with pagesTotal > 0 the confidence is min(100,
\* round(pagesWithText/pagesTotal*70 + families*10 + targets*5)), the
\* coverage being the unrounded ratio of the two page counts of the response.
C8_FromPageCounts ==
  (Done /\ result.pages_total > 0) =>
    result.confidence =
      Score(result.pages_with_text, result.pages_total,
            Cardinality(ReportedFamilies), result.targets_detected)

\* a document where the rounded and the unrounded coverage score differently
C8_Witness ==
  /\ Done
  /\ result.pages_total > 0
  /\ Score(result.coverage_pct, 1000, Cardinality(ReportedFamilies),
           result.targets_detected)
       # Score(result.pages_with_text, result.pages_total,
               Cardinality(ReportedFamilies), result.targets_detected)

(***************************************************************************)
(* C9                                                                      *)
(***************************************************************************)
\* C9 as stated: a family is matched iff a member keyword occurs in the
\* case-folded concatenation of the page texts, so a keyword split across a
\* page boundary matches; textLength is the sum of the page text lengths.
C9_Concatenation ==
  Done =>
    /\ \A f \in 1..Len(Families) : FamilyReported(f) <=> OccursIn(ConcatPages(pages), f)
    /\ result.text_length = SumLen(pages)

\* C9 as amended: the page texts are joined with a newline between
\* consecutive pages, so a family is matched iff a member keyword occurs
\* within the case-folded text of one page (a keyword split across a page
\* boundary does not match), and textLength is the sum of the page text
\* lengths plus one per page boundary.
C9_SinglePage ==
  Done =>
    /\ ReportedFamilies = MatchedOnSomePage
    /\ result.text_length = SumLen(pages) + Max(0, Len(pages) - 1)

\* a keyword split across the boundary of two pages
C9_Witness ==
  /\ Done
  /\ Len(pages) = 2
  /\ \E f \in 1..Len(Families) :
       /\ OccursIn(ConcatPages(pages), f)
       /\ ~OccursIn(pages[1], f)
       /\ ~OccursIn(pages[2], f)

(***************************************************************************)
(* C10                                                                     *)
(***************************************************************************)
\* C10: the evidence is empty iff fallbackMode is true; when a family
\* matched, a page with non-blank text contains a matched keyword; every
\* entry names a keyword of matchedKeywords and a 1-based page whose
\* case-folded text contains it.
C10_EvidenceConsistent ==
  Done =>
    /\ (result.evidence = <<>>) <=> result.fallback_mode
    /\ ReportedFamilies # {} =>
         \E p \in 1..Len(pages) : \E k \in Range(result.matched_keywords) :
            Strip(pages[p]) # <<>> /\ Contains(Lower(pages[p]), k)
    /\ \A i \in 1..Len(result.evidence) :
         LET e == result.evidence[i]
         IN /\ e.keyword \in Range(result.matched_keywords)
            /\ e.page \in 1..Len(pages)
            /\ Contains(Lower(pages[e.page]), e.keyword)

\* a matched keyword written in upper case, on the second page only
C10_Witness ==
  /\ Done
  /\ ~result.fallback_mode
  /\ result.evidence # <<>>
  /\ \A i \in 1..Len(result.evidence) :
       /\ result.evidence[i].page = 2
       /\ ~Contains(pages[2], result.evidence[i].keyword)

====
